---- MODULE Spec2Model ----
(***************************************************************************)
(* Model of svg_crop.py: the bounding-box aggregation, the viewBox         *)
(* computation, the root-attribute rewrite, the batch loop and main().     *)
(*                                                                         *)
(* Numbers.  Every coordinate and the padding are Python floats.  They    *)
(* are modelled in fixed point, in units of one half: the integer v        *)
(* stands for the float v/2.  All inputs are multiples of 0.5, on which    *)
(* float addition, subtraction, doubling, min and max are exact.           *)
(*                                                                         *)
(* Strings.  A string is a sequence of one-character strings.              *)
(***************************************************************************)
EXTENDS Integers, Sequences, FiniteSets, TLC

\* ---------------------------------------------------------------- bounds
MaxFiles == 2
MaxPaths == 2
MaxPad == 2
MaxCoord == 1

\* ---------------------------------------------------------------- strings
Digits == <<"0", "1", "2", "3", "4", "5", "6", "7", "8", "9">>

IsDigit(c) == \E i \in 1..Len(Digits) : Digits[i] = c

DigitVal(c) == (CHOOSE i \in 1..Len(Digits) : Digits[i] = c) - 1

\* str.isspace() on the characters the model uses
IsSpace(c) == c \in {" ", "\t", "\n"}

RECURSIVE IntToStr(_)
\* decimal digits of a natural number
IntToStr(n) ==
    IF n < 10 THEN <<Digits[n + 1]>>
    ELSE IntToStr(n \div 10) \o <<Digits[(n % 10) + 1]>>

\* str(float) / f"{x}" of the float v/2: always carries a fractional part
FormatFloat(v) ==
    LET a == IF v < 0 THEN 0 - v ELSE v
        sign == IF v < 0 THEN <<"-">> ELSE <<>>
        frac == IF a % 2 = 0 THEN <<"0">> ELSE <<"5">>
    IN sign \o IntToStr(a \div 2) \o <<".">> \o frac

RECURSIVE SplitFrom(_, _, _, _)
\* str.split(): whitespace-separated parts, empty parts dropped
SplitFrom(s, i, cur, acc) ==
    IF i > Len(s) THEN (IF cur = <<>> THEN acc ELSE Append(acc, cur))
    ELSE IF IsSpace(s[i])
         THEN SplitFrom(s, i + 1, <<>>, IF cur = <<>> THEN acc ELSE Append(acc, cur))
         ELSE SplitFrom(s, i + 1, Append(cur, s[i]), acc)

Split(s) == SplitFrom(s, 1, <<>>, <<>>)

\* the part of a numeral after an optional sign
Unsigned(t) == IF t # <<>> /\ t[1] \in {"+", "-"} THEN Tail(t) ELSE t

\* does float(t) accept t (decimal numerals: sign, digits, at most one point)
IsFloatStr(t) ==
    LET u == Unsigned(t)
        dots == {i \in 1..Len(u) : u[i] = "."}
    IN /\ \E i \in 1..Len(u) : IsDigit(u[i])
       /\ \A i \in 1..Len(u) : IsDigit(u[i]) \/ u[i] = "."
       /\ Cardinality(dots) <= 1

RECURSIVE DigitsVal(_)
DigitsVal(u) ==
    IF u = <<>> THEN 0
    ELSE 10 * DigitsVal(SubSeq(u, 1, Len(u) - 1)) + DigitVal(u[Len(u)])

\* float(t) in halves, for numerals that are multiples of 0.5
float(t) ==
    LET u == Unsigned(t)
        dots == {i \in 1..Len(u) : u[i] = "."}
        d == IF dots = {} THEN Len(u) + 1 ELSE CHOOSE i \in dots : TRUE
        ip == SubSeq(u, 1, d - 1)
        fp == SubSeq(u, d + 1, Len(u))
        mag == 2 * DigitsVal(ip) + (IF fp # <<>> /\ fp[1] = "5" THEN 1 ELSE 0)
    IN IF t # <<>> /\ t[1] = "-" THEN 0 - mag ELSE mag

\* Python's None
None == [none |-> TRUE]

\* ---------------------------------------------------------------- bbox
Min(a, b) == IF a < b THEN a ELSE b
Max(a, b) == IF a > b THEN a ELSE b

\* a path whose bbox() raises
BBoxFails == [fails |-> TRUE]

PathFails(p) == "fails" \in DOMAIN p

RECURSIVE AggregateFrom_FailAborts(_, _, _)
\* AggregateFrom without the try/except: a path whose bbox() fails ends the aggregation
AggregateFrom_FailAborts(paths, i, acc) ==
    IF i > Len(paths) THEN acc
    ELSE LET p == paths[i] IN
         IF PathFails(p) THEN None
         ELSE IF acc = None
              THEN AggregateFrom_FailAborts(paths, i + 1,
                       [xmin |-> p.xmin, xmax |-> p.xmax, ymin |-> p.ymin, ymax |-> p.ymax])
              ELSE AggregateFrom_FailAborts(paths, i + 1,
                       [xmin |-> Min(acc.xmin, p.xmin), xmax |-> Max(acc.xmax, p.xmax),
                        ymin |-> Min(acc.ymin, p.ymin), ymax |-> Max(acc.ymax, p.ymax)])

RECURSIVE AggregateFrom(_, _, _)
\* the loop of calculate_bbox_with_svgpathtools, from path i with accumulator acc
AggregateFrom(paths, i, acc) ==
    IF i > Len(paths) THEN acc
    ELSE LET p == paths[i] IN
         IF PathFails(p) THEN AggregateFrom(paths, i + 1, acc)
         ELSE IF acc = None
              THEN AggregateFrom(paths, i + 1,
                       [xmin |-> p.xmin, xmax |-> p.xmax, ymin |-> p.ymin, ymax |-> p.ymax])
              ELSE AggregateFrom(paths, i + 1,
                       [xmin |-> Min(acc.xmin, p.xmin), xmax |-> Max(acc.xmax, p.xmax),
                        ymin |-> Min(acc.ymin, p.ymin), ymax |-> Max(acc.ymax, p.ymax)])

\* calculate_bbox_with_svgpathtools on the paths svg2paths returned
calculate_bbox_with_svgpathtools(paths) ==
    IF paths = <<>> THEN None
    ELSE LET acc == AggregateFrom(paths, 1, None) IN
         IF acc = None THEN None
         ELSE [xmin |-> acc.xmin, ymin |-> acc.ymin,
               width |-> acc.xmax - acc.xmin, height |-> acc.ymax - acc.ymin,
               xmax |-> acc.xmax, ymax |-> acc.ymax]

\* the warnings the loop prints, one per path whose bbox() raised
BBoxWarnings(paths) ==
    LET idx == {i \in 1..Len(paths) : PathFails(paths[i])}
    IN [i \in 1..Cardinality(idx) |-> [kind |-> "Warning"]]

\* ---------------------------------------------------------------- viewBox
\* parse_viewbox: None, a dict, or ValueError from float()
parse_viewbox(viewbox_str) ==
    IF viewbox_str = <<>> THEN [raises |-> FALSE, value |-> None]
    ELSE LET parts == Split(viewbox_str) IN
         IF Len(parts) # 4 THEN [raises |-> FALSE, value |-> None]
         ELSE IF \E i \in 1..4 : ~IsFloatStr(parts[i])
              THEN [raises |-> TRUE, value |-> None]
              ELSE [raises |-> FALSE,
                    value |-> [x |-> float(parts[1]), y |-> float(parts[2]),
                               width |-> float(parts[3]), height |-> float(parts[4])]]

\* NewViewBox with the padding added once to the width and the height
NewViewBox_PadOnce(bbox, padding) ==
    [x |-> bbox.xmin - padding, y |-> bbox.ymin - padding,
     width |-> bbox.width + padding, height |-> bbox.height + padding]

\* the new viewBox rectangle of crop_svg
NewViewBox(bbox, padding) ==
    [x |-> bbox.xmin - padding, y |-> bbox.ymin - padding,
     width |-> bbox.width + (2 * padding), height |-> bbox.height + (2 * padding)]

\* f"{new_x} {new_y} {new_width} {new_height}"
ViewBoxString(vb) ==
    FormatFloat(vb.x) \o <<" ">> \o FormatFloat(vb.y) \o <<" ">>
        \o FormatFloat(vb.width) \o <<" ">> \o FormatFloat(vb.height)

\* ---------------------------------------------------------------- paths
Str_svg == <<".", "s", "v", "g">>
Str_txt == <<".", "t", "x", "t">>
Str_cropped == <<"_", "c", "r", "o", "p", "p", "e", "d">>

EndsWith(s, t) == Len(s) >= Len(t) /\ SubSeq(s, Len(s) - Len(t) + 1, Len(s)) = t

\* index of the dot that starts Path.suffix, 0 when the name has no suffix
SuffixDot(name) ==
    LET dots == {i \in 2..Len(name) : name[i] = "."}
    IN IF dots = {} \/ name[Len(name)] = "." THEN 0
       ELSE CHOOSE i \in dots : \A j \in dots : j <= i

\* Path.stem and Path.suffix
PathStem(name) == IF SuffixDot(name) = 0 THEN name ELSE SubSeq(name, 1, SuffixDot(name) - 1)
PathSuffix(name) == IF SuffixDot(name) = 0 THEN <<>> ELSE SubSeq(name, SuffixDot(name), Len(name))

\* input_path.parent / f"{input_path.stem}_cropped{input_path.suffix}"
DefaultOutput(input_file) ==
    [parent |-> input_file.parent,
     name |-> PathStem(input_file.name) \o Str_cropped \o PathSuffix(input_file.name)]

\* ---------------------------------------------------------------- crop_svg
\* root.set('viewBox', v)
SetAttr(attrib, k, v) == [a \in DOMAIN attrib \cup {k} |-> IF a = k THEN v ELSE attrib[a]]

\* if k in root.attrib: del root.attrib[k]
DelAttr(attrib, k) == [a \in DOMAIN attrib \ {k} |-> attrib[a]]

\* RewriteRoot that deletes width only
RewriteRoot_KeepsHeight(attrib, new_viewbox) ==
    DelAttr(SetAttr(attrib, "viewBox", new_viewbox), "width")

\* the root attributes crop_svg leaves in the tree it writes
RewriteRoot(attrib, new_viewbox) ==
    DelAttr(DelAttr(SetAttr(attrib, "viewBox", new_viewbox), "width"), "height")

\* svg2paths and ET.parse read the file: they succeed on a well-formed document
Readable(files, f) == f \in DOMAIN files /\ files[f].kind = "svg"

Returned(value, out, writes) ==
    [outcome |-> "returned", value |-> value, exc |-> "", console |-> out, writes |-> writes]

Raised(exc, out) ==
    [outcome |-> "raised", value |-> None, exc |-> exc, console |-> out, writes |-> <<>>]

\* crop_svg(input_file, output_file, padding): what it returns or raises,
\* the lines it prints and the file it writes
crop_svg(files, unwritable, input_file, output_arg, padding) ==
    LET output_file == IF output_arg = None THEN DefaultOutput(input_file) ELSE output_arg
        l_proc == <<[kind |-> "Processing", file |-> input_file]>>
    IN
    IF ~Readable(files, input_file) THEN Raised("ReadError", l_proc)
    ELSE
    LET doc == files[input_file]
        bbox == calculate_bbox_with_svgpathtools(doc.paths)
        l_warn == l_proc \o BBoxWarnings(doc.paths)
    IN
    IF bbox = None
    THEN Returned(None, Append(l_warn, [kind |-> "ErrorBBox", file |-> input_file]), <<>>)
    ELSE
    LET l_bbox == Append(l_warn, [kind |-> "BBox", file |-> input_file])
        has_vb == "viewBox" \in DOMAIN doc.attrib /\ doc.attrib["viewBox"] # <<>>
        old_vb == IF has_vb THEN parse_viewbox(doc.attrib["viewBox"])
                  ELSE [raises |-> FALSE, value |-> None]
    IN
    IF has_vb /\ old_vb.raises THEN Raised("ValueError", l_bbox)
    ELSE IF has_vb /\ old_vb.value = None THEN Raised("TypeError", l_bbox)
    ELSE
    LET l_old == IF has_vb THEN Append(l_bbox, [kind |-> "OldViewBox", file |-> input_file])
                 ELSE l_bbox
        vb == NewViewBox(bbox, padding)
        new_viewbox == ViewBoxString(vb)
        l_new == Append(l_old, [kind |-> "NewViewBox", file |-> input_file])
        outdoc == [kind |-> "svg", attrib |-> RewriteRoot(doc.attrib, new_viewbox),
                   paths |-> doc.paths]
    IN
    IF output_file \in unwritable THEN Raised("OSError", l_new)
    ELSE Returned(output_file,
                  Append(l_new, [kind |-> "Saved", file |-> output_file]),
                  <<[input |-> input_file, path |-> output_file, doc |-> outdoc]>>)

\* ---------------------------------------------------------------- inputs
Str_100 == <<"1", "0", "0">>
Str_50 == <<"5", "0">>
Str_icon == <<"i", "c", "o", "n">>

\* viewBox="0 0 100 100"
VB_good == <<"0", " ", "0", " ", "1", "0", "0", " ", "1", "0", "0">>
\* viewBox=" 0 0 100 100 "
VB_spaced == <<" ">> \o VB_good \o <<" ">>
\* viewBox="0,0,100,100"
VB_comma == <<"0", ",", "0", ",", "1", "0", "0", ",", "1", "0", "0">>
\* viewBox="0 0 100"
VB_three == <<"0", " ", "0", " ", "1", "0", "0">>
\* viewBox="a 0 100 100"
VB_alpha == <<"a", " ", "0", " ", "1", "0", "0", " ", "1", "0", "0">>
\* viewBox=""
VB_empty == <<>>

ViewBoxInputs == {VB_good, VB_spaced, VB_comma, VB_three, VB_alpha, VB_empty}

FullAttrib(vb) == [id |-> Str_icon, viewBox |-> vb, width |-> Str_100, height |-> Str_50]

Restrict(f, S) == [a \in S |-> f[a]]

\* root attribute dicts: id always, width / height / viewBox present or not
Attribs ==
    {Restrict(FullAttrib(VB_good), {"id"} \cup S) : S \in SUBSET {"width", "height"}}
    \cup {Restrict(FullAttrib(vb), {"id", "viewBox"} \cup S) :
              vb \in ViewBoxInputs, S \in SUBSET {"width", "height"}}

Coords == 0..MaxCoord

\* what path.bbox() gives: (xmin, xmax, ymin, ymax) with xmin <= xmax, ymin <= ymax
BBoxes ==
    {[xmin |-> a, xmax |-> b, ymin |-> c, ymax |-> d] :
        a \in Coords, b \in Coords, c \in Coords, d \in Coords} 

PathItems == {bb \in BBoxes : bb.xmin <= bb.xmax /\ bb.ymin <= bb.ymax} \cup {BBoxFails}

PathSeqs == UNION {[1..n -> PathItems] : n \in 0..MaxPaths}

Paddings == 0..MaxPad

\* a file that is not well-formed XML
Malformed == [kind |-> "malformed"]

AllDocs == [kind : {"svg"}, attrib : Attribs, paths : PathSeqs]

UnitBox == [xmin |-> 0, xmax |-> MaxCoord, ymin |-> 0, ymax |-> 0]

\* one document per outcome of crop_svg, for the runs of main()
SampleDocs ==
    {Malformed}
    \cup {d \in AllDocs : /\ d.paths \in {<<>>, <<UnitBox>>}
                         /\ DOMAIN d.attrib = {"id", "viewBox", "width", "height"}
                         /\ d.attrib["viewBox"] \in {VB_good, VB_comma}
                         /\ (d.paths = <<>> => d.attrib["viewBox"] = VB_good)}

Dir_in == "in"
Dir_out == "out"
Dir_sub == "in/sub"

SvgPath(i) == [parent |-> Dir_in, name |-> <<"f">> \o IntToStr(i) \o Str_svg]

NotesPath == [parent |-> Dir_in, name |-> <<"n">> \o Str_txt]
SubDirPath == [parent |-> Dir_in, name |-> <<"s", "u", "b">>]
NestedPath == [parent |-> Dir_sub, name |-> <<"f", "9">> \o Str_svg]
SingleOut == [parent |-> Dir_out, name |-> <<"o">> \o Str_svg]

\* the entries that are in the tree besides the svg files of the input directory
OtherFiles ==
    (NotesPath :> [kind |-> "other"]) @@ (SubDirPath :> [kind |-> "dir"])
        @@ (NestedPath :> [kind |-> "svg", attrib |-> FullAttrib(VB_good),
                           paths |-> <<UnitBox>>])

\* a tree without the input file
NoFiles == [p \in {} |-> Malformed]

Perms(S) == {s \in [1..Cardinality(S) -> S] : \A i, j \in DOMAIN s : s[i] = s[j] => i = j}

\* ---------------------------------------------------------------- state
VARIABLES
    avail,        \* SVGPATHTOOLS_AVAILABLE
    args,         \* argparse result: input, output, batch, padding
    files,        \* the file tree: path -> content
    scandir,      \* the order in which the OS lists the entries
    unwritable,   \* the paths that cannot be opened for writing
    pc,           \* position in main / process_batch
    svg_files,    \* process_batch: the enumerated files
    idx,          \* process_batch: position of the for loop
    console,      \* the lines printed so far
    written,      \* the files written so far, in order
    status        \* exit status of the process, -1 while it runs

vars == <<avail, args, files, scandir, unwritable, pc, svg_files, idx, console, written, status>>

\* the output path crop_svg would use for input p under args
OutputArg(a, p) ==
    IF a.output = None THEN None
    ELSE IF a.batch THEN [parent |-> a.output.dir, name |-> p.name]
    ELSE a.output.path

OutputOf(a, p) == IF OutputArg(a, p) = None THEN DefaultOutput(p) ELSE OutputArg(a, p)

\* ---------------------------------------------------------------- main
Line(kind) == [kind |-> kind]

\* input_path.glob('*.svg') on a directory, glob(pattern) otherwise:
\* the matching entries of the directory in the order the OS lists them
Enumerate(a, order) ==
    SelectSeq(order, LAMBDA p : p.parent = a.input.dir /\ EndsWith(p.name, Str_svg))

InitRun ==
    /\ pc = "main"
    /\ svg_files = <<>>
    /\ idx = 0
    /\ console = <<>>
    /\ written = <<>>
    /\ status = -1

\* a run of the command line: a tree of up to MaxFiles svg files, any listing order
Init ==
    /\ avail \in BOOLEAN
    /\ \E k \in 0..MaxFiles :
         LET svgs == {SvgPath(i) : i \in 1..k} IN
         /\ \E content \in [svgs -> SampleDocs] : files = content @@ OtherFiles
         /\ \E order \in Perms(svgs \cup {NotesPath}) : scandir = order \o <<SubDirPath, NestedPath>>
         /\ \/ /\ args \in [batch : {TRUE}, padding : {0, MaxPad},
                            input : {[kind |-> "dir", dir |-> Dir_in],
                                     [kind |-> "glob", dir |-> Dir_in]},
                            output : {None, [dir |-> Dir_out]}]
            \/ /\ args \in [batch : {FALSE}, padding : {0, MaxPad},
                            input : {[kind |-> "file", path |-> SvgPath(i)] : i \in 1..MaxFiles},
                            output : {None, [path |-> SingleOut]}]
         /\ unwritable \in {{}} \cup {{OutputOf(args, p)} : p \in svgs}
    /\ InitRun

\* main, line 226: the library is missing
MainMissing ==
    /\ pc = "main"
    /\ ~avail
    /\ console' = console \o <<Line("MissingCapability")>>
    /\ status' = 1
    /\ pc' = "exit"
    /\ UNCHANGED <<avail, args, files, scandir, unwritable, svg_files, idx, written>>

\* main, line 234: single-file mode; an exception leaves main uncaught
MainSingle ==
    /\ pc = "main"
    /\ avail
    /\ ~args.batch
    /\ LET r == crop_svg(files, unwritable, args.input.path,
                         OutputArg(args, args.input.path), args.padding) IN
       /\ console' = console \o r.console
                        \o (IF r.outcome = "raised" THEN <<Line("Traceback")>> ELSE <<>>)
       /\ written' = written \o r.writes
       /\ status' = IF r.outcome = "raised" THEN 1 ELSE 0
    /\ pc' = "exit"
    /\ UNCHANGED <<avail, args, files, scandir, unwritable, svg_files, idx>>

\* process_batch, lines 169-186: enumerate the files
BatchEnumerate ==
    /\ pc = "main"
    /\ avail
    /\ args.batch
    /\ svg_files' = Enumerate(args, scandir)
    /\ IF svg_files' = <<>>
       THEN /\ console' = console \o <<Line("NoFilesFound")>>
            /\ pc' = "exit"
            /\ status' = 0
            /\ idx' = idx
       ELSE /\ console' = console \o <<[kind |-> "Found", count |-> Len(svg_files')]>>
            /\ pc' = "loop"
            /\ status' = status
            /\ idx' = 1
    /\ UNCHANGED <<avail, args, files, scandir, unwritable, written>>

\* BatchStep without the try/except: an exception of crop_svg ends the run
BatchStep_NoCatch ==
    /\ pc = "loop"
    /\ idx <= Len(svg_files)
    /\ LET svg_file == svg_files[idx]
           r == crop_svg(files, unwritable, svg_file, OutputArg(args, svg_file), args.padding)
       IN
       /\ console' = console \o r.console
                        \o (IF r.outcome = "raised" THEN <<Line("Traceback")>> ELSE <<>>)
       /\ written' = written \o r.writes
       /\ pc' = IF r.outcome = "raised" THEN "exit" ELSE pc
       /\ status' = IF r.outcome = "raised" THEN 1 ELSE status
    /\ idx' = idx + 1
    /\ UNCHANGED <<avail, args, files, scandir, unwritable, svg_files>>

\* process_batch, lines 189-199: one iteration of the loop
BatchStep ==
    /\ pc = "loop"
    /\ idx <= Len(svg_files)
    /\ LET svg_file == svg_files[idx]
           r == crop_svg(files, unwritable, svg_file, OutputArg(args, svg_file), args.padding)
       IN
       /\ console' = console \o r.console
                        \o (IF r.outcome = "raised"
                            THEN <<[kind |-> "ErrorProcessing", file |-> svg_file]>> ELSE <<>>)
       /\ written' = written \o r.writes
    /\ idx' = idx + 1
    /\ UNCHANGED <<avail, args, files, scandir, unwritable, pc, svg_files, status>>

\* process_batch returns after the last file and main ends
BatchReturn ==
    /\ pc = "loop"
    /\ idx > Len(svg_files)
    /\ pc' = "exit"
    /\ status' = 0
    /\ UNCHANGED <<avail, args, files, scandir, unwritable, svg_files, idx, console, written>>

Next == MainMissing \/ MainSingle \/ BatchEnumerate \/ BatchStep \/ BatchReturn

Spec == Init /\ [][Next]_vars

\* ---------------------------------------------------------------- crop_svg alone
\* a call of crop_svg on one file: any document, any padding
InitCrop ==
    /\ avail = TRUE
    /\ \/ \E doc \in AllDocs \cup {Malformed} : files = (SvgPath(1) :> doc)
       \/ files = NoFiles
    /\ scandir = <<SvgPath(1)>>
    /\ args \in [batch : {FALSE}, padding : Paddings,
                 input : {[kind |-> "file", path |-> SvgPath(1)]},
                 output : {None, [path |-> SingleOut]}]
    /\ unwritable \in {{}, {OutputOf(args, SvgPath(1))}}
    /\ pc = "call"
    /\ svg_files = <<>>
    /\ idx = 0
    /\ console = <<>>
    /\ written = <<>>
    /\ status = -1

\* crop_svg(input_file, output_file, padding)
CropCall ==
    /\ pc = "call"
    /\ LET r == crop_svg(files, unwritable, args.input.path,
                         OutputArg(args, args.input.path), args.padding) IN
       /\ console' = console \o r.console
       /\ written' = written \o r.writes
       /\ pc' = r.outcome
    /\ UNCHANGED <<avail, args, files, scandir, unwritable, svg_files, idx, status>>

NextCrop == CropCall

SpecCrop == InitCrop /\ [][NextCrop]_vars

\* ---------------------------------------------------------------- properties
\* the document crop_svg read for the i-th written file
SourceOf(i) == files[written[i].input]

\* the aggregated bounding box of the i-th written file's input
BoxOf(i) == calculate_bbox_with_svgpathtools(SourceOf(i).paths)

\* the viewBox attribute of the i-th written file, read back as four numbers
WrittenViewBox(i) == parse_viewbox(written[i].doc.attrib["viewBox"])

\* C1: every written viewBox reads back as
\* (B.xmin - p, B.ymin - p, B.width + 2p, B.height + 2p), B the aggregated
\* bounding box of the input and p the padding (p = 0: exactly B).
C1_RawCrop ==
    \A i \in 1..Len(written) :
        /\ "viewBox" \in DOMAIN written[i].doc.attrib
        /\ ~WrittenViewBox(i).raises
        /\ WrittenViewBox(i).value =
               [x |-> BoxOf(i).xmin - args.padding,
                y |-> BoxOf(i).ymin - args.padding,
                width |-> BoxOf(i).width + args.padding + args.padding,
                height |-> BoxOf(i).height + args.padding + args.padding]

C1_Witness ==
    /\ pc = "returned"
    /\ Len(written) = 1
    /\ args.padding > 0
    /\ BoxOf(1).width > 0
    /\ BoxOf(1).height = 0
    /\ WrittenViewBox(1).value.x < 0

C1_WitnessZeroPad ==
    /\ pc = "returned"
    /\ Len(written) = 1
    /\ args.padding = 0
    /\ WrittenViewBox(1).value =
           [x |-> BoxOf(1).xmin, y |-> BoxOf(1).ymin,
            width |-> BoxOf(1).width, height |-> BoxOf(1).height]

\* is the rectangle vb the centred square around bbox b with padding p
\* (centres compared doubled, so that no half is needed)
CenteredSquare(vb, b, p) ==
    /\ vb.width = vb.height
    /\ vb.width = Max(b.width + 2 * p, b.height + 2 * p)
    /\ 2 * vb.x + vb.width = 2 * b.xmin + b.width
    /\ 2 * vb.y + vb.height = 2 * b.ymin + b.height

\* the argument records main can hand to crop_svg for one input file
Configurations ==
    [batch : {FALSE}, padding : Paddings,
     input : {[kind |-> "file", path |-> SvgPath(1)]},
     output : {None, [path |-> SingleOut]}]

\* C2: the program offers a centred-square policy: once a file was cropped,
\* some configuration of the arguments makes crop_svg write, for the same
\* input, a viewBox that is square with side max(B.width + 2p, B.height + 2p)
\* and centred on the centre of the bounding box.
C2_CenteredSquareOffered ==
    written # <<>> =>
        \E a \in Configurations :
            LET r == crop_svg(files, {}, a.input.path, OutputArg(a, a.input.path), a.padding)
                vb == parse_viewbox(r.writes[1].doc.attrib["viewBox"])
            IN /\ r.writes # <<>>
               /\ ~vb.raises
               /\ CenteredSquare(vb.value, BoxOf(1), a.padding)

\* C3: a written document's root has no width and no height, and every other
\* attribute but viewBox is as in the input.
C3_WidthHeightRemoved ==
    \A i \in 1..Len(written) :
        LET src == SourceOf(i).attrib
            out == written[i].doc.attrib
        IN /\ "width" \notin DOMAIN out
           /\ "height" \notin DOMAIN out
           /\ DOMAIN out \ {"viewBox"} = DOMAIN src \ {"viewBox", "width", "height"}
           /\ \A k \in DOMAIN out \ {"viewBox"} : out[k] = src[k]

C3_Witness ==
    /\ pc = "returned"
    /\ Len(written) = 1
    /\ {"width", "height", "id"} \subseteq DOMAIN SourceOf(1).attrib
    /\ "id" \in DOMAIN written[1].doc.attrib

C3_WitnessAbsent ==
    /\ pc = "returned"
    /\ Len(written) = 1
    /\ DOMAIN SourceOf(1).attrib = {"id"}

\* the files crop_svg was called on, in order: one "Processing" line per call
Attempted ==
    LET calls == SelectSeq(console, LAMBDA l : l.kind = "Processing")
    IN [i \in 1..Len(calls) |-> calls[i].file]

\* C4: in a batch run the files attempted so far are exactly the enumerated
\* files before the loop position, once each and in enumeration order, and
\* the run ends with all of them attempted and no uncaught error.
C4_BatchContinues ==
    (avail /\ args.batch) =>
        /\ pc = "loop" => Attempted = SubSeq(svg_files, 1, idx - 1)
        /\ pc = "exit" => Attempted = svg_files /\ status = 0

C4_Witness ==
    /\ pc = "exit"
    /\ args.batch
    /\ Len(svg_files) = MaxFiles
    /\ \E i \in 1..Len(console) :
          console[i].kind = "ErrorProcessing" /\ console[i].file = svg_files[1]
    /\ \E i \in 1..Len(console) :
          console[i].kind = "ErrorBBox" \/ (console[i].kind = "ErrorProcessing"
                                            /\ console[i].file # svg_files[1])
    /\ Attempted = svg_files

\* C5: a finished batch run has printed a summary success_count / total_count,
\* total_count the number of enumerated files and success_count the number of
\* files written.
C5_SummaryReported ==
    (pc = "exit" /\ avail /\ args.batch /\ svg_files # <<>>) =>
        \E i \in 1..Len(console) :
            /\ console[i].kind = "Summary"
            /\ console[i].success = Len(written)
            /\ console[i].total = Len(svg_files)

\* C6: the exit status is 1 exactly when the library is missing, and then no
\* file was read or written; otherwise it is 0.
C6_ExitStatus ==
    pc = "exit" =>
        /\ status \in {0, 1}
        /\ status = 1 <=> ~avail
        /\ ~avail => written = <<>> /\ Attempted = <<>>

C6_Witness ==
    /\ pc = "exit"
    /\ ~avail
    /\ status = 1

\* the paths of a document whose bbox() succeeded
UsablePaths(paths) == {i \in 1..Len(paths) : ~PathFails(paths[i])}

\* C7: once crop_svg has read a document, it reported "no bounding box"
\* exactly when no path had a bounding box; otherwise the aggregated box is
\* the union of the boxes of the paths whose bbox() succeeded (least minima,
\* greatest maxima, width = xmax - xmin >= 0, height = ymax - ymin >= 0), and
\* a failing path neither enters the union nor makes the call raise.
C7_UnionOfUsable ==
    (pc \in {"returned", "raised"} /\ Readable(files, SvgPath(1))) =>
        LET paths == files[SvgPath(1)].paths
            ok == UsablePaths(paths)
            b == calculate_bbox_with_svgpathtools(paths)
            noBox == \E i \in 1..Len(console) : console[i].kind = "ErrorBBox"
            boxed == \E i \in 1..Len(console) : console[i].kind = "BBox"
        IN /\ noBox <=> ok = {}
           /\ boxed <=> ok # {}
           /\ b = None <=> ok = {}
           /\ ok = {} => pc = "returned" /\ written = <<>>
           /\ ok # {} =>
                /\ \E i \in ok : b.xmin = paths[i].xmin
                /\ \E i \in ok : b.xmax = paths[i].xmax
                /\ \E i \in ok : b.ymin = paths[i].ymin
                /\ \E i \in ok : b.ymax = paths[i].ymax
                /\ \A i \in ok : /\ b.xmin <= paths[i].xmin /\ paths[i].xmax <= b.xmax
                                 /\ b.ymin <= paths[i].ymin /\ paths[i].ymax <= b.ymax
                /\ b.width = b.xmax - b.xmin /\ b.width >= 0
                /\ b.height = b.ymax - b.ymin /\ b.height >= 0

C7_Witness ==
    /\ pc = "returned"
    /\ written # <<>>
    /\ LET paths == files[SvgPath(1)].paths IN
       /\ Len(paths) = MaxPaths
       /\ PathFails(paths[1])
       /\ \E i \in 1..Len(console) : console[i].kind = "Warning"

C7_WitnessUnion ==
    /\ pc = "returned"
    /\ written # <<>>
    /\ LET paths == files[SvgPath(1)].paths IN
       /\ UsablePaths(paths) = {1, 2}
       /\ paths[1].xmin < paths[2].xmin
       /\ paths[1].ymax > paths[2].ymax
       /\ paths[1].xmax < paths[2].xmax

C7_WitnessNone ==
    /\ pc = "returned"
    /\ written = <<>>
    /\ files[SvgPath(1)].paths = <<BBoxFails, BBoxFails>>

\* the characters of file names, in code-point order
CharOrder ==
    <<".", "0", "1", "2", "3", "4", "5", "6", "7", "8", "9", "_",
      "a", "b", "c", "d", "e", "f", "g", "n", "o", "p", "r", "s", "t", "u", "v", "x">>

Rank(c) == CHOOSE i \in 1..Len(CharOrder) : CharOrder[i] = c

\* s < t as Python compares strings
StrLess(s, t) ==
    \E k \in 1..(Len(t)) :
        /\ \A j \in 1..(k - 1) : j <= Len(s) /\ s[j] = t[j]
        /\ \/ k = Len(s) + 1
           \/ k <= Len(s) /\ Rank(s[k]) < Rank(t[k])

\* C8: for a directory input the processed files are exactly the *.svg
\* entries of that directory and they are in sorted order of path.
C8_DirectorySorted ==
    (avail /\ args.batch /\ args.input.kind = "dir" /\ pc \in {"loop", "exit"}) =>
        /\ {svg_files[i] : i \in 1..Len(svg_files)} =
               {p \in DOMAIN files : p.parent = Dir_in /\ EndsWith(p.name, Str_svg)}
        /\ \A i, j \in 1..Len(svg_files) :
               i < j => StrLess(svg_files[i].name, svg_files[j].name)
        /\ pc = "exit" => Attempted = svg_files

\* C9: every written viewBox has width > 0 and height > 0.
C9_PositiveViewBox ==
    \A i \in 1..Len(written) :
        /\ ~WrittenViewBox(i).raises
        /\ WrittenViewBox(i).value.width > 0
        /\ WrittenViewBox(i).value.height > 0

\* C10: whatever viewBox the input root carries, crop_svg on a well-formed
\* document with a usable path and a writable output succeeds and writes the
\* viewBox computed from the bounding box and the padding.
C10_OldViewBoxIgnored ==
    (/\ pc \in {"returned", "raised"}
     /\ Readable(files, SvgPath(1))
     /\ UsablePaths(files[SvgPath(1)].paths) # {}
     /\ unwritable = {}) =>
        /\ pc = "returned"
        /\ Len(written) = 1
        /\ written[1].doc.attrib["viewBox"] =
               ViewBoxString(NewViewBox(BoxOf(1), args.padding))

====
